---- MODULE Spec2Model ----
(***************************************************************************)
(* Model of guard.py: the Guard class, nine static precondition checks.    *)
(* A caller holds one Python value and a filesystem; every step is one     *)
(* call of one check on that value.  The outcome of the call (returned     *)
(* value or raised exception, with its message) is recorded in `last`.     *)
(***************************************************************************)
EXTENDS Integers, Sequences, FiniteSets, TLC

VARIABLES fs, input, last, pinned

vars == <<fs, input, last, pinned>>

(* ---------------------------- bounds ----------------------------------- *)
MaxInt == 1        \* ints range over -MaxInt..MaxInt, descriptors 0..MaxInt
MaxLen == 1        \* lists have 0..MaxLen elements

(* ------------------------- Python values ------------------------------- *)
\* A value is its runtime type plus the part of its content the checks read:
\* num for numbers, text for str/bytes/path objects, len for containers.
Val(type, num, text, len) == [type |-> type, num |-> num, text |-> text, len |-> len]

Paths == {"/a"}                 \* names that may exist on the filesystem
Texts == {"", " "} \cup Paths   \* str contents
Ints  == (0 - MaxInt)..MaxInt
Fds   == 0..MaxInt              \* ints the OS may hold open as descriptors

NoneV == Val("NoneType", 0, "", 0)

Values ==
    {NoneV}
    \cup {Val("int", n, "", 0) : n \in Ints}
    \cup {Val("float", 0, "", 0)}                  \* 0.0
    \cup {Val("str", 0, t, 0) : t \in Texts}
    \cup {Val("bytes", 0, t, 0) : t \in Paths}     \* b"/a"
    \cup {Val("list", 0, "", n) : n \in 0..MaxLen}
    \cup {Val("dict", 0, "", 0)}                   \* {}
    \cup {Val("PosixPath", 0, t, 0) : t \in Paths} \* pathlib.Path("/a")
    \cup {Val("LegacySeq", 0, "", 0)}              \* class with __getitem__ only

\* The result slot of a call that raised.
Nothing == Val("<nothing>", 0, "", 0)

ExpectedTypes == {"str", "int"}

\* argument_name as the caller passes it; Omitted = parameter left out.
Omitted == "<omitted>"
Names == {"x", "cfg"}
NameArgs == Names \cup {Omitted}

(* --------------------------- filesystem -------------------------------- *)
Kinds == {"missing", "file", "dir"}
FsStates == [entries : [Paths -> Kinds], dirFds : SUBSET Fds]

(* ----------------------- outcomes and messages ------------------------- *)
Lit(s) == [tag |-> "lit", text |-> s]
Interp(tag, s) == [tag |-> tag, text |-> s]

Return(v, q) == [kind |-> "ok", ret |-> v, msg |-> <<>>, queried |-> q]
Raise(exc, m, q) == [kind |-> exc, ret |-> Nothing, msg |-> m, queried |-> q]

\* f"{path}" : str() of the value
Format(v) ==
    CASE v.type = "bytes" -> <<Lit("b'"), Interp("value", v.text), Lit("'")>>
      [] v.type = "int"   -> <<Interp("value", ToString(v.num))>>
      [] OTHER            -> <<Interp("value", v.text)>>

(* ------------------- Python primitives the checks use ------------------ *)
\* type(argument).__name__
TypeName(v) == v.type

\* isinstance(argument, expected_type), expected_type one of ExpectedTypes
IsInstance(v, t) == v.type = t

\* isinstance(path, (str, bytes, os.PathLike))
IsPathLike(v) == v.type \in {"str", "bytes", "PosixPath"}

\* isinstance(argument, collections.abc.Iterable): the class defines __iter__
IsIterable(v) == v.type \in {"str", "bytes", "list", "dict"}

\* isinstance(argument, (str, bytes))
IsStrOrBytes(v) == v.type \in {"str", "bytes"}

\* argument < 0 is defined for int and float only; otherwise the
\* interpreter raises TypeError
IsNumber(v) == v.type \in {"int", "float"}
LessThanZero(v) == v.num < 0

\* argument == 0
EqualsZero(v) == IsNumber(v) /\ v.num = 0

\* argument == ""
EqualsEmptyString(v) == v.type = "str" /\ v.text = ""

\* bool(argument)
Truthy(v) ==
    CASE v.type = "NoneType"         -> FALSE
      [] v.type \in {"int", "float"} -> v.num # 0
      [] v.type \in {"str", "bytes"} -> v.text # ""
      [] v.type \in {"list", "dict"} -> v.len > 0
      [] OTHER                       -> TRUE

\* What the path names on the filesystem (os.stat follows os.fspath).
Lookup(v) == IF v.text \in Paths THEN fs.entries[v.text] ELSE "missing"

\* os.path.exists(path), path a str, bytes or os.PathLike.  The memoising
\* variant answers from the previous call when that call already asked.
exists_memo(path) ==
    IF last.queried THEN last.kind = "ok" ELSE Lookup(path) # "missing"

exists(path) == Lookup(path) # "missing"

\* os.stat raises TypeError unless given str, bytes, os.PathLike or an int
\* (which it takes as an open file descriptor).
StatRejects(v) == ~IsPathLike(v) /\ v.type # "int"

\* os.path.isdir(path), for the values os.stat accepts
isdir_exists(path) ==
    IF IsPathLike(path) THEN Lookup(path) # "missing" ELSE path.num \in fs.dirFds

isdir(path) ==
    IF IsPathLike(path) THEN Lookup(path) = "dir" ELSE path.num \in fs.dirFds

(* ------------------------------ Guard ---------------------------------- *)
against_none_named(argument, argument_name) ==
    IF argument.type = "NoneType" \/ argument_name = "value"
    THEN Raise("ValueError",
               <<Lit("Argument '"), Interp("name", argument_name),
                 Lit("' must not be None.")>>, FALSE)
    ELSE Return(argument, FALSE)

against_none(argument, argument_name) ==
    IF argument.type = "NoneType"
    THEN Raise("ValueError",
               <<Lit("Argument '"), Interp("name", argument_name),
                 Lit("' must not be None.")>>, FALSE)
    ELSE Return(argument, FALSE)

against_negative_le(argument, argument_name) ==
    IF ~IsNumber(argument)
    THEN Raise("TypeError",
               <<Lit("'<=' not supported between instances of '"),
                 Interp("type", TypeName(argument)), Lit("' and 'int'")>>, FALSE)
    ELSE IF argument.num <= 0
    THEN Raise("ValueError",
               <<Lit("Argument '"), Interp("name", argument_name),
                 Lit("' must be positive")>>, FALSE)
    ELSE Return(argument, FALSE)

against_negative(argument, argument_name) ==
    IF ~IsNumber(argument)
    THEN Raise("TypeError",
               <<Lit("'<' not supported between instances of '"),
                 Interp("type", TypeName(argument)), Lit("' and 'int'")>>, FALSE)
    ELSE IF LessThanZero(argument)
    THEN Raise("ValueError",
               <<Lit("Argument '"), Interp("name", argument_name),
                 Lit("' must be positive")>>, FALSE)
    ELSE Return(argument, FALSE)

against_empty_string(argument, argument_name) ==
    IF EqualsEmptyString(argument)
    THEN Raise("ValueError",
               <<Lit("Argument '"), Interp("name", argument_name),
                 Lit("' must not be ''")>>, FALSE)
    ELSE Return(argument, FALSE)

against_zero(argument, argument_name) ==
    IF EqualsZero(argument)
    THEN Raise("ValueError",
               <<Lit("Argument '"), Interp("name", argument_name),
                 Lit("' must not be zero.")>>, FALSE)
    ELSE Return(argument, FALSE)

against_empty_collection(argument, argument_name) ==
    IF ~Truthy(argument)
    THEN Raise("ValueError",
               <<Lit("Argument '"), Interp("name", argument_name),
                 Lit("' must not be empty.")>>, FALSE)
    ELSE Return(argument, FALSE)

against_wrong_type(argument, expected_type, argument_name) ==
    IF ~IsInstance(argument, expected_type)
    THEN Raise("TypeError",
               <<Lit("Argument '"), Interp("name", argument_name),
                 Lit("' must be of type "), Interp("type", expected_type),
                 Lit(". Got "), Interp("type", TypeName(argument)), Lit(".")>>,
               FALSE)
    ELSE Return(argument, FALSE)

\* variant: hands back os.fspath(path) decoded to str
against_file_not_found_fspath(path, argument_name) ==
    IF path.type = "NoneType"
    THEN Raise("ValueError",
               <<Lit("Argument '"), Interp("name", argument_name),
                 Lit("' must not be None.")>>, FALSE)
    ELSE IF ~IsPathLike(path)
    THEN Raise("TypeError",
               <<Lit("Argument '"), Interp("name", argument_name),
                 Lit("' must be a valid file path (str, bytes, or os.PathLike).")>>,
               FALSE)
    ELSE IF ~exists(path)
    THEN Raise("FileNotFoundError",
               <<Lit("File not found: '")>> \o Format(path) \o <<Lit("'")>>, TRUE)
    ELSE Return(Val("str", 0, path.text, 0), TRUE)

\* variant: the isinstance test placed before the None test
against_file_not_found_typefirst(path, argument_name) ==
    IF ~IsPathLike(path)
    THEN Raise("TypeError",
               <<Lit("Argument '"), Interp("name", argument_name),
                 Lit("' must be a valid file path (str, bytes, or os.PathLike).")>>,
               FALSE)
    ELSE IF path.type = "NoneType"
    THEN Raise("ValueError",
               <<Lit("Argument '"), Interp("name", argument_name),
                 Lit("' must not be None.")>>, FALSE)
    ELSE IF ~exists(path)
    THEN Raise("FileNotFoundError",
               <<Lit("File not found: '")>> \o Format(path) \o <<Lit("'")>>, TRUE)
    ELSE Return(path, TRUE)

against_file_not_found(path, argument_name) ==
    IF path.type = "NoneType"
    THEN Raise("ValueError",
               <<Lit("Argument '"), Interp("name", argument_name),
                 Lit("' must not be None.")>>, FALSE)
    ELSE IF ~IsPathLike(path)
    THEN Raise("TypeError",
               <<Lit("Argument '"), Interp("name", argument_name),
                 Lit("' must be a valid file path (str, bytes, or os.PathLike).")>>,
               FALSE)
    ELSE IF ~exists(path)
    THEN Raise("FileNotFoundError",
               <<Lit("File not found: '")>> \o Format(path) \o <<Lit("'")>>, TRUE)
    ELSE Return(path, TRUE)

\* argument_name is accepted but not used by this check
against_directory_not_found(path, argument_name) ==
    IF StatRejects(path)
    THEN Raise("TypeError",
               <<Lit("stat: path should be string, bytes, os.PathLike or integer, not "),
                 Interp("type", TypeName(path))>>, FALSE)
    ELSE IF ~isdir(path)
    THEN Raise("FileNotFoundError",
               <<Lit("Directory not found: '")>> \o Format(path) \o <<Lit("'")>>,
               TRUE)
    ELSE Return(path, TRUE)

against_not_iterable(argument, argument_name) ==
    IF ~IsIterable(argument) \/ IsStrOrBytes(argument)
    THEN Raise("TypeError",
               <<Lit("Argument '"), Interp("name", argument_name),
                 Lit("' must be an iterable (not str/bytes).")>>, FALSE)
    ELSE Return(argument, FALSE)

\* The default of each check's argument_name parameter.
DefaultName(check) ==
    CASE check = "against_file_not_found"      -> "file_path"
      [] check = "against_directory_not_found" -> "directory"
      [] OTHER                                 -> "value"

\* The name the check body sees for a call made with name argument n.
Bound(check, n) == IF n = Omitted THEN DefaultName(check) ELSE n

(* --------------------------- state machine ----------------------------- *)
NoType == "-"
NoCall == [check |-> "<none>", name |-> Omitted, etype |-> NoType,
           kind |-> "<none>", ret |-> Nothing, msg |-> <<>>, queried |-> FALSE]

Init ==
    /\ fs \in FsStates
    /\ input \in Values
    /\ last = NoCall
    /\ pinned = NoCall

\* One call: its arguments and its outcome become the last call.
Call(check, n, t, res) ==
    /\ last' = [check |-> check, name |-> n, etype |-> t, kind |-> res.kind,
                ret |-> res.ret, msg |-> res.msg, queried |-> res.queried]
    /\ UNCHANGED <<fs, input, pinned>>

CallAgainstNone ==
    \E n \in NameArgs :
        Call("against_none", n, NoType,
             against_none(input, Bound("against_none", n)))

CallAgainstNegative ==
    \E n \in NameArgs :
        Call("against_negative", n, NoType,
             against_negative(input, Bound("against_negative", n)))

CallAgainstEmptyString ==
    \E n \in NameArgs :
        Call("against_empty_string", n, NoType,
             against_empty_string(input, Bound("against_empty_string", n)))

CallAgainstZero ==
    \E n \in NameArgs :
        Call("against_zero", n, NoType,
             against_zero(input, Bound("against_zero", n)))

CallAgainstEmptyCollection ==
    \E n \in NameArgs :
        Call("against_empty_collection", n, NoType,
             against_empty_collection(input, Bound("against_empty_collection", n)))

CallAgainstWrongType ==
    \E n \in NameArgs, t \in ExpectedTypes :
        Call("against_wrong_type", n, t,
             against_wrong_type(input, t, Bound("against_wrong_type", n)))

CallAgainstFileNotFound ==
    \E n \in NameArgs :
        Call("against_file_not_found", n, NoType,
             against_file_not_found(input, Bound("against_file_not_found", n)))

CallAgainstDirectoryNotFound ==
    \E n \in NameArgs :
        Call("against_directory_not_found", n, NoType,
             against_directory_not_found(input,
                 Bound("against_directory_not_found", n)))

CallAgainstNotIterable ==
    \E n \in NameArgs :
        Call("against_not_iterable", n, NoType,
             against_not_iterable(input, Bound("against_not_iterable", n)))

\* The caller keeps the outcome of the call just made, to compare later
\* calls with it.
Remember ==
    /\ last # NoCall
    /\ pinned # last
    /\ pinned' = last
    /\ UNCHANGED <<fs, input, last>>

Next ==
    \/ CallAgainstNone
    \/ CallAgainstNegative
    \/ CallAgainstEmptyString
    \/ CallAgainstZero
    \/ CallAgainstEmptyCollection
    \/ CallAgainstWrongType
    \/ CallAgainstFileNotFound
    \/ CallAgainstDirectoryNotFound
    \/ CallAgainstNotIterable
    \/ Remember

Spec == Init /\ [][Next]_vars

TypeOK ==
    /\ fs \in FsStates
    /\ input \in Values
    /\ last.kind \in {"<none>", "ok", "ValueError", "TypeError", "FileNotFoundError"}

(* ------------------------------ claims --------------------------------- *)
Failed(c) == c.kind \notin {"<none>", "ok"}

\* C1: a call that succeeds returns exactly the value it was given, and no
\* call changes the filesystem or the value.
C1_ReturnsArgumentUnchanged ==
    [][/\ last'.kind = "ok" => last'.ret = input
       /\ fs' = fs
       /\ input' = input]_vars

C1_Witness ==
    /\ last.check = "against_file_not_found"
    /\ last.kind = "ok"
    /\ input.type = "PosixPath"
    /\ pinned.check = "against_wrong_type"
    /\ pinned.kind = "TypeError"

\* C2: against_file_not_found: None fails with ValueError, otherwise a value
\* that is not str, bytes or a path object fails with TypeError, otherwise a
\* path that does not exist fails with FileNotFoundError; the filesystem is
\* not asked in the first two cases.
C2_FileCheckPrecedence ==
    last.check = "against_file_not_found" =>
        /\ input.type = "NoneType" =>
               last.kind = "ValueError" /\ ~last.queried
        /\ input.type \notin {"NoneType", "str", "bytes", "PosixPath"} =>
               last.kind = "TypeError" /\ ~last.queried
        /\ (/\ input.type \in {"str", "bytes", "PosixPath"}
            /\ (input.text \notin Paths \/ fs.entries[input.text] = "missing")) =>
               last.kind = "FileNotFoundError" /\ last.queried

C2_Witness ==
    /\ last.check = "against_file_not_found"
    /\ input.type = "NoneType"
    /\ last.kind = "ValueError"
    /\ \E p \in Paths : fs.entries[p] = "file"

\* C3: against_file_not_found on a str, bytes or path object succeeds only
\* when the path names an existing file; a missing path and a directory both
\* fail with FileNotFoundError.
C3_FileCheckRejectsDirectories ==
    (/\ last.check = "against_file_not_found"
     /\ input.type \in {"str", "bytes", "PosixPath"}) =>
        IF input.text \in Paths /\ fs.entries[input.text] = "file"
        THEN last.kind = "ok" /\ last.ret = input
        ELSE last.kind = "FileNotFoundError"

\* C4: against_directory_not_found on a str, bytes or path object succeeds
\* exactly when the path names an existing directory, returning the path; a
\* missing path and a regular file both fail with FileNotFoundError.
C4_DirectoryCheck ==
    (/\ last.check = "against_directory_not_found"
     /\ input.type \in {"str", "bytes", "PosixPath"}) =>
        IF input.text \in Paths /\ fs.entries[input.text] = "dir"
        THEN last.kind = "ok" /\ last.ret = input
        ELSE last.kind = "FileNotFoundError"

C4_Witness ==
    /\ last.check = "against_directory_not_found"
    /\ input.type = "str"
    /\ input.text \in Paths
    /\ fs.entries[input.text] = "file"
    /\ last.kind = "FileNotFoundError"
    /\ pinned.check = "against_file_not_found"
    /\ pinned.kind = "ok"

\* C5: against_directory_not_found treats malformed input as
\* against_file_not_found does: None fails with ValueError, a value that is
\* not str, bytes or a path object fails with TypeError, and only a
\* well-formed path fails with FileNotFoundError.
C5_DirectoryCheckMirrorsFileCheck ==
    last.check = "against_directory_not_found" =>
        /\ input.type = "NoneType" => last.kind = "ValueError"
        /\ input.type \notin {"NoneType", "str", "bytes", "PosixPath"} =>
               last.kind = "TypeError"
        /\ last.kind = "FileNotFoundError" =>
               input.type \in {"str", "bytes", "PosixPath"}

\* C6: two calls of the same check on the same value under different names
\* (one of them possibly omitted) have the same outcome: the same returned
\* value or the same exception type.
C6_NameDoesNotAffectOutcome ==
    (/\ pinned # NoCall
     /\ pinned.check = last.check
     /\ pinned.etype = last.etype
     /\ pinned.name # last.name) =>
        pinned.kind = last.kind /\ pinned.ret = last.ret

C6_Witness ==
    /\ pinned.check = "against_wrong_type"
    /\ last.check = "against_wrong_type"
    /\ pinned.etype = last.etype
    /\ pinned.name = Omitted
    /\ last.name = "cfg"
    /\ last.kind = "TypeError"

\* C7: the message of every failure a check signals on an input of its
\* declared kind names the argument: the name the caller gave, or "value"
\* when the caller gave none.
C7_MessageNamesArgument ==
    (/\ Failed(last)
     /\ last.check = "against_negative" => input.type \in {"int", "float"}
     /\ last.check = "against_directory_not_found" =>
            input.type \in {"str", "bytes", "PosixPath"}) =>
        \E i \in DOMAIN last.msg :
            /\ last.msg[i].tag = "name"
            /\ last.msg[i].text = (IF last.name = Omitted THEN "value" ELSE last.name)

C9_NotIterable ==
    last.check = "against_not_iterable" =>
        IF /\ input.type \in {"str", "bytes", "list", "dict", "LegacySeq"}
           /\ input.type \notin {"str", "bytes"}
        THEN last.kind = "ok" /\ last.ret = input
        ELSE last.kind = "TypeError"

\* C10: each of the five value checks raises ValueError exactly when its own
\* rule is violated and otherwise returns: None; a number below zero; a
\* number equal to zero; the str ""; a falsy value.
C10_ValueChecks ==
    LET fails(rule) == IF rule THEN last.kind = "ValueError"
                       ELSE last.kind = "ok" /\ last.ret = input
    IN  /\ last.check = "against_none" => fails(input.type = "NoneType")
        /\ (last.check = "against_negative" /\ input.type \in {"int", "float"}) =>
               fails(input.num < 0)
        /\ last.check = "against_zero" =>
               fails(input.type \in {"int", "float"} /\ input.num = 0)
        /\ last.check = "against_empty_string" =>
               fails(input.type = "str" /\ input.text = "")
        /\ last.check = "against_empty_collection" =>
               fails(\/ input.type = "NoneType"
                     \/ input.type \in {"int", "float"} /\ input.num = 0
                     \/ input.type \in {"str", "bytes"} /\ input.text = ""
                     \/ input.type \in {"list", "dict"} /\ input.len = 0)

C10_Witness ==
    /\ input.type = "int"
    /\ input.num = 0
    /\ pinned.check = "against_none"
    /\ pinned.kind = "ok"
    /\ last.check = "against_negative"
    /\ last.kind = "ok"

====
